---- MODULE Spec2Model ----
(***************************************************************************)
(* Model of the session verifier cache                                     *)
(*   finality-aleph/src/sync/substrate/verification/cache.rs               *)
(* driven by the collaborators its unit tests use (MockAuthorityProvider,  *)
(* MockFinalizationInfo).                                                  *)
(***************************************************************************)
EXTENDS Integers, Sequences, FiniteSets, TLC

(* ---------------------------- bounds ----------------------------------- *)
\* highest session id the environment ever talks about
MaxSession == 2
\* largest cache_size handed to VerifierCache::new
MaxCacheSize == 2
\* events one block of the pallet model may hold
MaxEvents == 2

(* ---------------------------- constants of the tests ------------------- *)
\* const SESSION_PERIOD: u32 = 30
SESSION_PERIOD == 30

Sessions == 0..MaxSession
\* the block numbers the callers ask about: the first block of every session and, as
\* tests::session_verifier does, the last one
Blocks == {session_id * SESSION_PERIOD : session_id \in Sessions}
              \cup {(session_id + 1) * SESSION_PERIOD - 1 : session_id \in Sessions}

\* Where the saturating u32 arithmetic of try_prune saturates. SessionId is a u32;
\* the model's integers end at 2^31 - 1, and no session id of the model comes
\* anywhere near either value.
U32Max == 2147483647

(* ---------------------------- state ------------------------------------ *)
VARIABLES
    cached_data,         \* VerifierCache.cached_data : SessionId -> CachedData
    lower_bound,         \* VerifierCache.lower_bound
    cache_size,          \* VerifierCache.cache_size
    finalized_number,    \* MockFinalizationInfo.finalized_number
    session_map,         \* MockAuthorityProvider.session_map
    aura_authority_map,  \* MockAuthorityProvider.aura_authority_map
    call,                \* the call of get / get_aura_authorities that has just returned
    pre_cached_data,     \* cached_data as it was when that call started
    pre_lower_bound,     \* lower_bound as it was when that call started
    top_accepted,        \* highest session that passed both bound checks so far, -1 if none
    pending,             \* sessions whose population failed, no higher session requested since
    top_returned,        \* highest session a call has returned data for so far, -1 if none
    evicted,             \* sessions whose entry the retention pass has removed
    future_rejected,     \* session of the last call if it was SessionInFuture, else -1
    DisReAssembly,       \* pallet storage: StorageMap AccountId -> FSEvent (OptionQuery)
    events,              \* the events the pallet has deposited
    dispatch,            \* the pallet call that has just been dispatched, and its result
    pre_DisReAssembly,   \* DisReAssembly as it was when that call was dispatched
    pre_events,          \* events as they were when that call was dispatched
    last_ok              \* per account, the arguments of its latest call that returned Ok(())

vars == <<cached_data, lower_bound, cache_size, finalized_number, session_map,
          aura_authority_map, call, pre_cached_data, pre_lower_bound,
          top_accepted, pending, top_returned, evicted, future_rejected,
          DisReAssembly, events, dispatch, pre_DisReAssembly, pre_events, last_ok>>

\* the verifier cache with its collaborators, and the pink-scorpion pallet
cache_vars == <<cached_data, lower_bound, cache_size, finalized_number, session_map,
                aura_authority_map, call, pre_cached_data, pre_lower_bound,
                top_accepted, pending, top_returned, evicted, future_rejected>>
pallet_vars == <<DisReAssembly, events, dispatch, pre_DisReAssembly, pre_events,
                 last_ok>>

\* what the calls so far have led to, kept across the steps of the collaborators
history == <<top_accepted, pending, top_returned, evicted, future_rejected>>

(* ---------------------------- helpers ---------------------------------- *)
\* Option<T> as a set with at most one element
None == {}
Some(x) == {x}
Unwrap(o) == CHOOSE x \in o : TRUE

\* u32::saturating_add / u32::saturating_sub
saturating_add(a, b) == IF a > U32Max - b THEN U32Max ELSE a + b
saturating_sub(a, b) == IF a < b THEN 0 ELSE a - b

\* SessionBoundaryInfo
session_id_from_block_num(n) == n \div SESSION_PERIOD
first_block_of_session(s) == s * SESSION_PERIOD

\* the test fixtures: the authority data of a session
authority_data_for_session(session_id) == <<session_id * 4, (session_id + 1) * 4>>
aura_authority_data_for_session(session_id) ==
    [i \in 1..4 |-> session_id * 4 + (i - 1)]

\* SessionAuthorityData -> SessionVerifier (.into())
Into(authority_data) == [verifier_for |-> authority_data]

(* ------------------ MockAuthorityProvider (AuthorityProvider) ---------- *)
\* MockAuthorityProvider::new(session_n): the sessions 0..session_n are known
session_map_of(session_n) == [s \in 0..session_n |-> authority_data_for_session(s)]
aura_authority_map_of(session_n) == [s \in 0..session_n |-> aura_authority_data_for_session(s)]

MapGet(m, k) == IF k \in DOMAIN m THEN Some(m[k]) ELSE None

authority_data(block_number) ==
    MapGet(session_map, session_id_from_block_num(block_number))
next_authority_data(block_number) ==
    MapGet(session_map, session_id_from_block_num(block_number) + 1)
aura_authorities(block_number) ==
    MapGet(aura_authority_map, session_id_from_block_num(block_number))
\* slip: the queued list is taken to be the current one
next_aura_authorities_current(block_number) ==
    MapGet(aura_authority_map, session_id_from_block_num(block_number))
next_aura_authorities(block_number) ==
    MapGet(aura_authority_map, session_id_from_block_num(block_number) + 1)

\* one lookup on the authority provider: the method called and its block number
Query(method, block_number) == [method |-> method, block_number |-> block_number]

lookup(query) ==
    CASE query.method = "authority_data" -> authority_data(query.block_number)
      [] query.method = "next_authority_data" -> next_authority_data(query.block_number)
      [] query.method = "aura_authorities" -> aura_authorities(query.block_number)
      [] query.method = "next_aura_authorities" -> next_aura_authorities(query.block_number)

(* ---------------------------- CacheError ------------------------------- *)
UnknownAuthorities(s) == [kind |-> "UnknownAuthorities", session |-> s, bound |-> -1]
UnknownAuraAuthorities(s) == [kind |-> "UnknownAuraAuthorities", session |-> s, bound |-> -1]
SessionTooOld(s, lb) == [kind |-> "SessionTooOld", session |-> s, bound |-> lb]
SessionInFuture(s, ub) == [kind |-> "SessionInFuture", session |-> s, bound |-> ub]
NoError == [kind |-> "Ok", session |-> -1, bound |-> -1]

(* ---------------------------- download_data ---------------------------- *)
\* slip: the round-robin list is looked up before the authority data
download_from_aura_first(session_id, verifier_query, aura_query) ==
    LET aura_source == lookup(aura_query)
        verifier_source == lookup(verifier_query)
    IN  IF aura_source = None
        THEN [data |-> None, err |-> UnknownAuraAuthorities(session_id),
              queries |-> <<aura_query>>]
        ELSE IF verifier_source = None
        THEN [data |-> None, err |-> UnknownAuthorities(session_id),
              queries |-> <<aura_query, verifier_query>>]
        ELSE [data |-> Some([session_verifier |-> Into(Unwrap(verifier_source)),
                             aura_authorities |-> Unwrap(aura_source)]),
              err |-> NoError, queries |-> <<aura_query, verifier_query>>]

\* the two lookups of one population, in the order of the struct literal; `?` returns
\* at the first that is None, so the second lookup is then never made
download_from(session_id, verifier_query, aura_query) ==
    LET verifier_source == lookup(verifier_query)
        aura_source == lookup(aura_query)
    IN  IF verifier_source = None
        THEN [data |-> None, err |-> UnknownAuthorities(session_id),
              queries |-> <<verifier_query>>]
        ELSE IF aura_source = None
        THEN [data |-> None, err |-> UnknownAuraAuthorities(session_id),
              queries |-> <<verifier_query, aura_query>>]
        ELSE [data |-> Some([session_verifier |-> Into(Unwrap(verifier_source)),
                             aura_authorities |-> Unwrap(aura_source)]),
              err |-> NoError, queries |-> <<verifier_query, aura_query>>]

\* slip: the population of session N looks at session N, not at session N - 1
download_data_same_session(session_id) ==
    IF session_id = 0
    THEN download_from(session_id, Query("authority_data", 0), Query("aura_authorities", 0))
    ELSE LET prev_first == first_block_of_session(session_id)
         IN download_from(session_id, Query("next_authority_data", prev_first),
                          Query("next_aura_authorities", prev_first))

\* slip: a later session is populated from what is in effect at its own first block
download_data_current(session_id) ==
    IF session_id = 0
    THEN download_from(session_id, Query("authority_data", 0), Query("aura_authorities", 0))
    ELSE LET first == first_block_of_session(session_id)
         IN download_from(session_id, Query("authority_data", first),
                          Query("aura_authorities", first))

download_data(session_id) ==
    IF session_id = 0
    THEN download_from(session_id, Query("authority_data", 0), Query("aura_authorities", 0))
    ELSE LET prev_first == first_block_of_session(session_id - 1)
         IN download_from(session_id, Query("next_authority_data", prev_first),
                          Query("next_aura_authorities", prev_first))

(* ---------------------------- try_prune -------------------------------- *)
\* slip: nothing is dropped
retain_all(cd, new_lower_bound) == cd

\* slip: the entry at the new lower bound is dropped as well
retain_above(cd, new_lower_bound) ==
    [id \in {k \in DOMAIN cd : k > new_lower_bound} |-> cd[id]]

retain(cd, new_lower_bound) ==
    [id \in {k \in DOMAIN cd : k >= new_lower_bound} |-> cd[id]]

\* slip: the window is one slot too wide before it slides
prune_needed_strict(session_id, lb, size) == session_id > saturating_add(lb, size)

prune_needed(session_id, lb, size) == session_id >= saturating_add(lb, size)

\* slip: the + 1 is missing
new_lower_bound_of_no_inc(session_id, size) == saturating_sub(session_id, size)

new_lower_bound_of(session_id, size) == saturating_sub(session_id, size) + 1

\* slip: the window holds cache_size + 1 sessions, as the struct's doc comment has it
try_prune_one_more(cd, lb, size, session_id) ==
    IF session_id >= saturating_add(lb, size + 1)
    THEN LET new_lower_bound == saturating_sub(session_id, size)
         IN [cached_data |-> retain(cd, new_lower_bound),
             lower_bound |-> new_lower_bound,
             pruned |-> TRUE]
    ELSE [cached_data |-> cd, lower_bound |-> lb, pruned |-> FALSE]

try_prune(cd, lb, size, session_id) ==
    IF prune_needed(session_id, lb, size)
    THEN LET new_lower_bound == new_lower_bound_of(session_id, size)
         IN [cached_data |-> retain(cd, new_lower_bound),
             lower_bound |-> new_lower_bound,
             pruned |-> TRUE]
    ELSE [cached_data |-> cd, lower_bound |-> lb, pruned |-> FALSE]

(* ---------------------------- get_data --------------------------------- *)
\* slip: the lower bound itself is rejected
too_old_inclusive(session_id, lb) == session_id <= lb

too_old(session_id, lb) == session_id < lb

\* slip: the one-session lead over finalization is dropped
upper_bound_of_finalized_session(finalized) == session_id_from_block_num(finalized)

upper_bound_of(finalized) == session_id_from_block_num(finalized) + 1

\* slip: the upper bound itself is rejected
in_future_inclusive(session_id, upper_bound) == session_id >= upper_bound

\* slip: one session past the upper bound is still let through
in_future_lenient(session_id, upper_bound) == session_id > upper_bound + 1

in_future(session_id, upper_bound) == session_id > upper_bound

\* slip: a failed population leaves an empty entry behind
entry_or_insert_always(cd, session_id, downloaded) ==
    IF session_id \in DOMAIN cd
    THEN [cached_data |-> cd, data |-> Some(cd[session_id]), err |-> NoError, hit |-> TRUE,
          queries |-> << >>]
    ELSE IF downloaded.data = None
    THEN [cached_data |-> [id \in DOMAIN cd \cup {session_id} |->
                              IF id = session_id
                              THEN [session_verifier |-> Into(<<0, 0>>),
                                    aura_authorities |-> << >>]
                              ELSE cd[id]],
          data |-> None, err |-> downloaded.err, hit |-> FALSE,
          queries |-> downloaded.queries]
    ELSE [cached_data |-> [id \in DOMAIN cd \cup {session_id} |->
                              IF id = session_id THEN Unwrap(downloaded.data) ELSE cd[id]],
          data |-> downloaded.data, err |-> NoError, hit |-> FALSE,
          queries |-> downloaded.queries]

\* slip: download_data(..)? is evaluated before the entry is looked at
entry_or_insert_eager(cd, session_id, downloaded) ==
    IF downloaded.data = None
    THEN [cached_data |-> cd, data |-> None, err |-> downloaded.err,
          hit |-> session_id \in DOMAIN cd, queries |-> downloaded.queries]
    ELSE IF session_id \in DOMAIN cd
    THEN [cached_data |-> cd, data |-> Some(cd[session_id]), err |-> NoError, hit |-> TRUE,
          queries |-> downloaded.queries]
    ELSE [cached_data |-> [id \in DOMAIN cd \cup {session_id} |->
                              IF id = session_id THEN Unwrap(downloaded.data) ELSE cd[id]],
          data |-> downloaded.data, err |-> NoError, hit |-> FALSE,
          queries |-> downloaded.queries]

\* slip: an occupied entry is refreshed whenever the download succeeds
entry_or_insert_refresh(cd, session_id, downloaded) ==
    IF downloaded.data = None
    THEN IF session_id \in DOMAIN cd
         THEN [cached_data |-> cd, data |-> Some(cd[session_id]), err |-> NoError,
               hit |-> TRUE, queries |-> downloaded.queries]
         ELSE [cached_data |-> cd, data |-> None, err |-> downloaded.err,
               hit |-> FALSE, queries |-> downloaded.queries]
    ELSE [cached_data |-> [id \in DOMAIN cd \cup {session_id} |->
                              IF id = session_id THEN Unwrap(downloaded.data) ELSE cd[id]],
          data |-> downloaded.data, err |-> NoError, hit |-> session_id \in DOMAIN cd,
          queries |-> downloaded.queries]

\* cached_data.entry(session_id): Occupied, or Vacant filled by download_data(..)?
entry_or_insert(cd, session_id, downloaded) ==
    IF session_id \in DOMAIN cd
    THEN [cached_data |-> cd, data |-> Some(cd[session_id]), err |-> NoError, hit |-> TRUE,
          queries |-> << >>]
    ELSE IF downloaded.data = None
    THEN [cached_data |-> cd, data |-> None, err |-> downloaded.err, hit |-> FALSE,
          queries |-> downloaded.queries]
    ELSE [cached_data |-> [id \in DOMAIN cd \cup {session_id} |->
                              IF id = session_id THEN Unwrap(downloaded.data) ELSE cd[id]],
          data |-> downloaded.data, err |-> NoError, hit |-> FALSE,
          queries |-> downloaded.queries]

\* slip: the retention pass runs before the bound checks
get_data_prune_first(number) ==
    LET session_id == session_id_from_block_num(number)
        upper_bound == upper_bound_of(finalized_number)
        p == try_prune(cached_data, lower_bound, cache_size, session_id)
    IN  IF too_old(session_id, lower_bound)
        THEN [cached_data |-> p.cached_data, lower_bound |-> p.lower_bound, data |-> None,
              err |-> SessionTooOld(session_id, lower_bound),
              accepted |-> FALSE, pruned |-> p.pruned, hit |-> FALSE,
              queries |-> << >>, finalized_lookups |-> 0]
        ELSE IF in_future(session_id, upper_bound)
        THEN [cached_data |-> p.cached_data, lower_bound |-> p.lower_bound, data |-> None,
              err |-> SessionInFuture(session_id, upper_bound),
              accepted |-> FALSE, pruned |-> p.pruned, hit |-> FALSE,
              queries |-> << >>, finalized_lookups |-> 1]
        ELSE LET e == entry_or_insert(p.cached_data, session_id, download_data(session_id))
             IN [cached_data |-> e.cached_data, lower_bound |-> p.lower_bound,
                 data |-> e.data, err |-> e.err,
                 accepted |-> TRUE, pruned |-> p.pruned, hit |-> e.hit,
                 queries |-> e.queries, finalized_lookups |-> 1]

\* the outcome of get_data(number) in the current state
get_data(number) ==
    LET session_id == session_id_from_block_num(number)
        upper_bound == upper_bound_of(finalized_number)
    IN  IF too_old(session_id, lower_bound)
        THEN [cached_data |-> cached_data, lower_bound |-> lower_bound, data |-> None,
              err |-> SessionTooOld(session_id, lower_bound),
              accepted |-> FALSE, pruned |-> FALSE, hit |-> FALSE,
              queries |-> << >>, finalized_lookups |-> 0]
        ELSE IF in_future(session_id, upper_bound)
        THEN [cached_data |-> cached_data, lower_bound |-> lower_bound, data |-> None,
              err |-> SessionInFuture(session_id, upper_bound),
              accepted |-> FALSE, pruned |-> FALSE, hit |-> FALSE,
              queries |-> << >>, finalized_lookups |-> 1]
        ELSE LET p == try_prune(cached_data, lower_bound, cache_size, session_id)
                 e == entry_or_insert(p.cached_data, session_id, download_data(session_id))
             IN [cached_data |-> e.cached_data, lower_bound |-> p.lower_bound,
                 data |-> e.data, err |-> e.err,
                 accepted |-> TRUE, pruned |-> p.pruned, hit |-> e.hit,
                 queries |-> e.queries, finalized_lookups |-> 1]

\* the field of CachedData each public method hands out
field_of(op, data) ==
    IF data = None THEN None
    ELSE IF op = "get" THEN Some(Unwrap(data).session_verifier)
    ELSE Some(Unwrap(data).aura_authorities)

(* ======================================================================= *)
(* pallets/pink-scorpion/src/lib.rs                                        *)
(* ======================================================================= *)
\* the accounts that sign calls
Accounts == {"alice", "bob"}

\* the lengths of FSEvent's arrays, the limits of the ensure! checks
CREATION_TIME_LEN == 64
FILE_PATH_LEN == 256
EVENT_KEY_LEN == 128

\* a Vec<u8> of the given length
Bytes(len, byte) == [i \in 1..len |-> byte]

\* the arguments the calls are tried with: short vectors, vectors of exactly the
\* limit, and every combination of vectors one byte over the limit
CreationTimes == {Bytes(1, 7), Bytes(CREATION_TIME_LEN, 1), Bytes(CREATION_TIME_LEN + 1, 1)}
FilePaths == {Bytes(2, 8), Bytes(FILE_PATH_LEN, 2), Bytes(FILE_PATH_LEN + 1, 2)}
EventKeys == {Bytes(3, 9), Bytes(EVENT_KEY_LEN, 3), Bytes(EVENT_KEY_LEN + 1, 3)}
Arguments ==
    {a \in CreationTimes \X FilePaths \X EventKeys :
        \/ Len(a[1]) = 1 /\ Len(a[2]) = 2 /\ Len(a[3]) = 3
        \/ Len(a[1]) >= CREATION_TIME_LEN /\ Len(a[2]) >= FILE_PATH_LEN
                                          /\ Len(a[3]) >= EVENT_KEY_LEN}

\* OriginFor<T>: signed by an account, or not signed
Signed(who) == [signed |-> TRUE, who |-> who]
Unsigned == [signed |-> FALSE, who |-> "nobody"]
Origins == {Signed(who) : who \in Accounts} \cup {Unsigned}

\* let mut arr = [0u8; n]; arr[..v.len()].copy_from_slice(&v); arr
ZeroPadded(v, n) == [i \in 1..n |-> IF i <= Len(v) THEN v[i] ELSE 0]

FSEvent(creation_time, file_path, event_key) ==
    [creationtime |-> ZeroPadded(creation_time, CREATION_TIME_LEN),
     filepath |-> ZeroPadded(file_path, FILE_PATH_LEN),
     eventkey |-> ZeroPadded(event_key, EVENT_KEY_LEN)]

\* slip: a vector of exactly the limit is rejected
within_strict(v, limit) == Len(v) < limit

\* ensure!(v.len() <= limit, ..)
within(v, limit) == Len(v) <= limit

\* ensure_signed(origin)? and the three ensure! checks, in the order of the code
checked(origin, creation_time, file_path, event_key) ==
    IF ~origin.signed THEN "BadOrigin"
    ELSE IF ~within(creation_time, CREATION_TIME_LEN) THEN "CreationTimeTooLong"
    ELSE IF ~within(file_path, FILE_PATH_LEN) THEN "FilePathTooLong"
    ELSE IF ~within(event_key, EVENT_KEY_LEN) THEN "EventKeyTooLong"
    ELSE "Ok"

\* slip: the record an account already has is kept
insert_if_absent(map, key, value) ==
    [a \in DOMAIN map \cup {key} |-> IF a \in DOMAIN map THEN map[a] ELSE value]

\* StorageMap::insert(&key, &value): the value stored under key is replaced
insert(map, key, value) ==
    [a \in DOMAIN map \cup {key} |-> IF a = key THEN value ELSE map[a]]

NoDispatch == [call |-> "none", origin |-> Unsigned, creation_time |-> << >>,
               file_path |-> << >>, event_key |-> << >>, result |-> "Ok"]

PalletInit ==
    /\ DisReAssembly = << >>
    /\ events = << >>
    /\ dispatch = NoDispatch
    /\ pre_DisReAssembly = << >>
    /\ pre_events = << >>
    /\ last_ok = << >>

\* the body shared, line for line, by disassembled and reassembled; they differ in the
\* event they deposit
Dispatch(name, event_name, origin, creation_time, file_path, event_key) ==
    LET result == checked(origin, creation_time, file_path, event_key)
        event == FSEvent(creation_time, file_path, event_key)
        sender == origin.who
    IN  /\ Len(events) < MaxEvents      \* the block has room for the call's event
        /\ dispatch' = [call |-> name, origin |-> origin, creation_time |-> creation_time,
                        file_path |-> file_path, event_key |-> event_key,
                        result |-> result]
        /\ pre_DisReAssembly' = DisReAssembly
        /\ pre_events' = events
        /\ IF result = "Ok"
           THEN /\ DisReAssembly' = insert(DisReAssembly, sender, event)
                /\ events' = Append(events, [name |-> event_name, who |-> sender,
                                             event |-> event])
           ELSE UNCHANGED <<DisReAssembly, events>>
        /\ last_ok' = IF result = "Ok"
                      THEN [a \in DOMAIN last_ok \cup {sender} |->
                               IF a = sender
                               THEN [call |-> name, creation_time |-> creation_time,
                                     file_path |-> file_path, event_key |-> event_key]
                               ELSE last_ok[a]]
                      ELSE last_ok
        /\ UNCHANGED cache_vars

disassembled ==
    \E origin \in Origins, a \in Arguments :
        Dispatch("disassembled", "FileDisassembled", origin, a[1], a[2], a[3])

reassembled ==
    \E origin \in Origins, a \in Arguments :
        Dispatch("reassembled", "FileReassembled", origin, a[1], a[2], a[3])

(* ---------------------------- actions ---------------------------------- *)
NoCall == [op |-> "none", number |-> 0, session |-> 0, finalized |-> 0,
           err |-> NoError, value |-> None, accepted |-> FALSE, pruned |-> FALSE,
           hit |-> FALSE, top_before |-> -1, was_pending |-> FALSE, had_data |-> FALSE,
           had_authorities |-> FALSE, had_aura_authorities |-> FALSE,
           queries |-> << >>, finalized_lookups |-> 0,
           returned_before |-> -1, was_evicted |-> FALSE, was_future_rejected |-> FALSE]

CacheInit ==
    /\ cached_data = << >>
    /\ lower_bound = 0
    /\ cache_size \in 1..MaxCacheSize      \* a positive number of retained sessions
    /\ finalized_number = 0
    /\ session_map \in {session_map_of(n) : n \in {-1, 0}}
    /\ aura_authority_map \in {aura_authority_map_of(n) : n \in {-1, 0}}
    /\ call = NoCall
    /\ pre_cached_data = << >>
    /\ pre_lower_bound = 0
    /\ top_accepted = -1
    /\ pending = {}
    /\ top_returned = -1
    /\ evicted = {}
    /\ future_rejected = -1

Init == CacheInit /\ PalletInit

\* get(number) / get_aura_authorities(number): both are get_data(number)? then one field
CallCache(op, number) ==
    LET r == get_data(number)
        session_id == session_id_from_block_num(number)
    IN  /\ cached_data' = r.cached_data
        /\ lower_bound' = r.lower_bound
        /\ pre_cached_data' = cached_data
        /\ pre_lower_bound' = lower_bound
        /\ call' = [op |-> op, number |-> number, session |-> session_id,
                    finalized |-> finalized_number,
                    err |-> r.err, value |-> field_of(op, r.data),
                    accepted |-> r.accepted, pruned |-> r.pruned, hit |-> r.hit,
                    top_before |-> top_accepted,
                    was_pending |-> session_id \in pending,
                    had_data |-> /\ session_id \in DOMAIN session_map
                                 /\ session_id \in DOMAIN aura_authority_map,
                    had_authorities |-> session_id \in DOMAIN session_map,
                    had_aura_authorities |-> session_id \in DOMAIN aura_authority_map,
                    queries |-> r.queries, finalized_lookups |-> r.finalized_lookups,
                    returned_before |-> top_returned,
                    was_evicted |-> session_id \in evicted,
                    was_future_rejected |-> session_id = future_rejected]
        /\ UNCHANGED <<cache_size, finalized_number, session_map, aura_authority_map>>
        /\ UNCHANGED pallet_vars

\* what the call adds to the history of calls
CallHistory(number) ==
    LET r == get_data(number)
        session_id == session_id_from_block_num(number)
    IN  /\ top_accepted' = IF r.accepted /\ session_id > top_accepted
                           THEN session_id ELSE top_accepted
        /\ pending' = IF r.err.kind \in {"UnknownAuthorities", "UnknownAuraAuthorities"}
                      THEN {s \in pending : s >= session_id} \cup {session_id}
                      ELSE {s \in pending : s >= session_id} \ {session_id}
        /\ top_returned' = IF r.err.kind = "Ok" /\ session_id > top_returned
                           THEN session_id ELSE top_returned
        /\ evicted' = evicted \cup (DOMAIN cached_data \ DOMAIN r.cached_data)
        /\ future_rejected' = IF r.err.kind = "SessionInFuture" THEN session_id ELSE -1

Call(op, number) == CallCache(op, number) /\ CallHistory(number)

Get == \E number \in Blocks : Call("get", number)

GetAuraAuthorities == \E number \in Blocks : Call("get_aura_authorities", number)

\* A step of a collaborator is not a call: no call has just returned, and the next
\* call starts from the cache as it is.
BetweenCalls ==
    /\ call' = NoCall
    /\ pre_cached_data' = cached_data
    /\ pre_lower_bound' = lower_bound
    /\ UNCHANGED pallet_vars

\* tests::finalize_first_in_session(session_id)
finalize_first_in_session(session_id) == session_id * SESSION_PERIOD

\* FinalizationInfo: the finalized height grows between calls
Finalize ==
    /\ \E session_id \in Sessions :
          /\ finalize_first_in_session(session_id) > finalized_number
          /\ finalized_number' = finalize_first_in_session(session_id)
    /\ BetweenCalls
    /\ UNCHANGED <<cached_data, lower_bound, cache_size, session_map, aura_authority_map,
                   history>>

\* AuthorityProvider: the authority data of the next session becomes known
LearnAuthorities ==
    /\ Cardinality(DOMAIN session_map) \in Sessions
    /\ session_map' = [s \in DOMAIN session_map \cup {Cardinality(DOMAIN session_map)} |->
                           IF s \in DOMAIN session_map THEN session_map[s]
                           ELSE authority_data_for_session(s)]
    /\ BetweenCalls
    /\ UNCHANGED <<cached_data, lower_bound, cache_size, finalized_number, aura_authority_map,
                   history>>

LearnAuraAuthorities ==
    /\ Cardinality(DOMAIN aura_authority_map) \in Sessions
    /\ aura_authority_map' =
           [s \in DOMAIN aura_authority_map \cup {Cardinality(DOMAIN aura_authority_map)} |->
               IF s \in DOMAIN aura_authority_map THEN aura_authority_map[s]
               ELSE aura_authority_data_for_session(s)]
    /\ BetweenCalls
    /\ UNCHANGED <<cached_data, lower_bound, cache_size, finalized_number, session_map,
                   history>>

Next == Get \/ GetAuraAuthorities \/ Finalize \/ LearnAuthorities \/ LearnAuraAuthorities

Spec == Init /\ [][Next]_vars

(* ------------- an authority source that changes its answers ------------ *)
\* another authority set for the same session: every authority id moved by two
other_authority_data_for_session(session_id) ==
    <<session_id * 4 + 2, (session_id + 1) * 4 + 2>>
other_aura_authority_data_for_session(session_id) ==
    [i \in 1..4 |-> session_id * 4 + 2 + (i - 1)]

\* AuthorityProvider: once it knows every session, the source starts to answer
\* differently for each of them
ChangeAnswers ==
    /\ session_map = session_map_of(MaxSession)
    /\ aura_authority_map = aura_authority_map_of(MaxSession)
    /\ session_map' = [s \in DOMAIN session_map |-> other_authority_data_for_session(s)]
    /\ aura_authority_map' =
           [s \in DOMAIN aura_authority_map |-> other_aura_authority_data_for_session(s)]
    /\ BetweenCalls
    /\ UNCHANGED <<cached_data, lower_bound, cache_size, finalized_number, history>>

\* the same calls, with the history of calls left out
GetUntracked ==
    \E number \in Blocks : CallCache("get", number) /\ UNCHANGED history

GetAuraAuthoritiesUntracked ==
    \E number \in Blocks : CallCache("get_aura_authorities", number) /\ UNCHANGED history

NextMutable ==
    \/ GetUntracked
    \/ GetAuraAuthoritiesUntracked
    \/ Finalize
    \/ LearnAuthorities
    \/ LearnAuraAuthorities
    \/ ChangeAnswers

SpecMutable == Init /\ [][NextMutable]_vars

(* ---------------------------- the pallet alone ------------------------ *)
\* the pallet alone, next to a cache that is never called
PalletSpecInit ==
    /\ PalletInit
    /\ CacheInit
    /\ cache_size = 1
    /\ session_map = << >>
    /\ aura_authority_map = << >>

NextPallet == disassembled \/ reassembled

SpecPallet == PalletSpecInit /\ [][NextPallet]_vars

TypeOK ==
    /\ lower_bound \in 0..(MaxSession + 1)
    /\ DOMAIN cached_data \subseteq Sessions
    /\ finalized_number \in Blocks
    /\ cache_size \in 1..MaxCacheSize
(* ======================================================================= *)
(* Properties                                                              *)
(* ======================================================================= *)
Called == call.op # "none"
Succeeded == Called /\ call.err.kind = "Ok"
\* the bounds a call was checked against, recomputed from what the call saw
SessionOf(number) == number \div SESSION_PERIOD
UpperBoundAt(finalized) == SessionOf(finalized) + 1
PassedBoundChecks ==
    /\ Called
    /\ SessionOf(call.number) >= pre_lower_bound
    /\ SessionOf(call.number) <= UpperBoundAt(call.finalized)

\* C1 -- Rejection purity: a call that returns SessionTooOld or SessionInFuture
\* leaves the entries map and lower_bound exactly as they were before the call.
RejectionPurity ==
    call.err.kind \in {"SessionTooOld", "SessionInFuture"} =>
        /\ cached_data = pre_cached_data
        /\ lower_bound = pre_lower_bound

\* a populated cache rejects a session that a retention pass would have acted on
RejectionPurityWitness ==
    /\ call.err.kind = "SessionInFuture"
    /\ SessionOf(call.number) >= pre_lower_bound + cache_size
    /\ DOMAIN cached_data # {}

\* C2 -- No eviction leak: with window_size >= 1, after any call every key of
\* entries lies in [lower_bound, lower_bound + window_size - 1].
NoEvictionLeak ==
    cache_size >= 1 =>
        \A k \in DOMAIN cached_data :
            lower_bound <= k /\ k <= lower_bound + cache_size - 1

\* a retention pass has evicted an entry and the window is full again
NoEvictionLeakWitness ==
    /\ call.pruned
    /\ DOMAIN pre_cached_data \ DOMAIN cached_data # {}
    /\ Cardinality(DOMAIN cached_data) = cache_size
    /\ cache_size > 1

\* C3 -- Monotonic lower bound: lower_bound is 0 until a call passes the bound checks,
\* after a call it is >= its value before the call, and it is strictly larger whenever
\* the retention pass fired.
MonotonicLowerBound ==
    /\ top_accepted = -1 => lower_bound = 0
    /\ lower_bound >= pre_lower_bound
    /\ call.pruned => lower_bound > pre_lower_bound

\* the retention pass fires for a second time
MonotonicLowerBoundWitness ==
    /\ call.pruned
    /\ pre_lower_bound > 0

\* C4 -- A successful get(b) returns the verifier built from the authority data of
\* exactly the session containing b, on a fresh population as well as on a hit.
GetReturnsSessionVerifier ==
    (Succeeded /\ call.op = "get") =>
        call.value = Some(Into(authority_data_for_session(SessionOf(call.number))))

\* a hit on a later session after an earlier one was evicted
GetReturnsSessionVerifierWitness ==
    /\ Succeeded /\ call.op = "get"
    /\ call.hit
    /\ SessionOf(call.number) >= 1
    /\ lower_bound >= 1

\* C5 -- Lower-bound check: a call for session s fails with SessionTooOld(s, L), L the
\* lower_bound at the time of the call, iff s < L; and while S >= window_size is the
\* highest session that passed the bound checks, L = S - window_size + 1.
LowerBoundCheck ==
    Called =>
        LET s == SessionOf(call.number)
            S == call.top_before
        IN  /\ (call.err.kind = "SessionTooOld") <=> (s < pre_lower_bound)
            /\ call.err.kind = "SessionTooOld" =>
                   call.err = SessionTooOld(s, pre_lower_bound)
            /\ (S >= cache_size /\ s < S - cache_size + 1) =>
                   call.err = SessionTooOld(s, S - cache_size + 1)

\* the test's case: a session below S - window_size + 1 is asked for after S passed
LowerBoundCheckWitness ==
    /\ Called
    /\ call.top_before >= cache_size
    /\ call.err = SessionTooOld(SessionOf(call.number), call.top_before - cache_size + 1)

\* C6 -- Upper-bound check: with U = session(finalized) + 1 at the time of the call, a
\* call for a session s >= lower_bound fails with SessionInFuture(s, U) iff s > U.
UpperBoundCheck ==
    (Called /\ SessionOf(call.number) >= pre_lower_bound) =>
        LET s == SessionOf(call.number)
            U == UpperBoundAt(call.finalized)
        IN  /\ (call.err.kind = "SessionInFuture") <=> (s > U)
            /\ call.err.kind = "SessionInFuture" => call.err = SessionInFuture(s, U)

\* a request for exactly one session past the finalized one is served
UpperBoundCheckWitness ==
    /\ Succeeded
    /\ SessionOf(call.number) = UpperBoundAt(call.finalized)
    /\ call.finalized > 0

\* C7 -- Retention pass: a call for session s that passes both bound checks with
\* s >= lower_bound + window_size sets lower_bound = s - window_size + 1 and removes
\* exactly the entries below it; otherwise lower_bound and every entry are kept.
RetentionPass ==
    PassedBoundChecks =>
        LET s == SessionOf(call.number)
            new_lb == s - cache_size + 1
        IN  IF s >= pre_lower_bound + cache_size
            THEN /\ lower_bound = new_lb
                 /\ \A k \in DOMAIN pre_cached_data :
                       IF k < new_lb
                       THEN k \notin DOMAIN cached_data
                       ELSE k \in DOMAIN cached_data /\ cached_data[k] = pre_cached_data[k]
            ELSE /\ lower_bound = pre_lower_bound
                 /\ \A k \in DOMAIN pre_cached_data :
                       k \in DOMAIN cached_data /\ cached_data[k] = pre_cached_data[k]

\* one pass that drops one entry and keeps another
RetentionPassWitness ==
    /\ PassedBoundChecks
    /\ SessionOf(call.number) >= pre_lower_bound + cache_size
    /\ \E k \in DOMAIN pre_cached_data : k \notin DOMAIN cached_data
    /\ \E k \in DOMAIN pre_cached_data : k \in DOMAIN cached_data

\* C8 -- Failures are never cached: a call that fails with UnknownAuthorities(s) or
\* UnknownAuraAuthorities(s) inserts no entry for s, and a later call for s, made once
\* the authority source has the data of s and with no higher session requested in
\* between, succeeds and returns that data.
FailuresNeverCached ==
    /\ call.err.kind \in {"UnknownAuthorities", "UnknownAuraAuthorities"} =>
           SessionOf(call.number) \notin DOMAIN cached_data
    /\ (Called /\ call.was_pending /\ call.had_data) =>
           /\ call.err.kind = "Ok"
           /\ call.value =
                 IF call.op = "get"
                 THEN Some(Into(authority_data_for_session(SessionOf(call.number))))
                 ELSE Some(aura_authority_data_for_session(SessionOf(call.number)))

\* the retry of a failed population succeeds
FailuresNeverCachedWitness ==
    /\ Succeeded
    /\ call.was_pending
    /\ call.had_data
    /\ SessionOf(call.number) >= 1

\* C9 -- No partial state on failure: every call that returns an error leaves
\* lower_bound and the entries map identical to their values before the call.
NoPartialStateOnFailure ==
    (Called /\ call.err.kind # "Ok") =>
        /\ cached_data = pre_cached_data
        /\ lower_bound = pre_lower_bound

\* C10 (as stated) -- a successful get_aura_authorities(b) returns the round-robin
\* list of session session_id_from_block_number(b) + 1.
AuraOfFollowingSession ==
    (Succeeded /\ call.op = "get_aura_authorities") =>
        call.value = Some(aura_authority_data_for_session(SessionOf(call.number) + 1))

\* C10 (amended) -- a successful get_aura_authorities(b) returns the round-robin
\* list of the session containing b, session_id_from_block_number(b).
AuraOfContainingSession ==
    (Succeeded /\ call.op = "get_aura_authorities") =>
        call.value = Some(aura_authority_data_for_session(SessionOf(call.number)))

\* a fresh population of a session after genesis, asked for through its last block
AuraOfContainingSessionWitness ==
    /\ Succeeded /\ call.op = "get_aura_authorities"
    /\ ~call.hit
    /\ SessionOf(call.number) >= 1
    /\ SessionOf(call.number + 1) = SessionOf(call.number) + 1

\* the call found the entry of its session already cached
Hit == Called /\ SessionOf(call.number) \in DOMAIN pre_cached_data

\* C11 (as stated) -- a call that resolves to a session whose entry is already present
\* performs no lookup on the authority source and none on the finalization source.
CacheHitConsultsNoCollaborator ==
    Hit => (call.queries = << >> /\ call.finalized_lookups = 0)

\* C11 (amended) -- on a hit the authority source is not consulted, it is consulted
\* only on a miss that passed both bound checks; the finalization source is read once
\* by every call that passes the lower-bound check, a hit included.
CacheHitConsultsNoAuthoritySource ==
    /\ Hit => (call.queries = << >> /\ call.finalized_lookups = 1)
    /\ call.queries # << >> => (PassedBoundChecks /\ ~Hit)
    /\ Called =>
          call.finalized_lookups =
              IF SessionOf(call.number) < pre_lower_bound THEN 0 ELSE 1

\* the second of two successful calls for a session after genesis
CacheHitConsultsNoAuthoritySourceWitness ==
    /\ Hit /\ Succeeded
    /\ SessionOf(call.number) >= 1
    /\ call.finalized > 0

\* the lookups a population of session s may make, in order
QueriesFor(s) ==
    IF s = 0
    THEN <<[method |-> "authority_data", block_number |-> 0],
           [method |-> "aura_authorities", block_number |-> 0]>>
    ELSE <<[method |-> "next_authority_data", block_number |-> (s - 1) * SESSION_PERIOD],
           [method |-> "next_aura_authorities", block_number |-> (s - 1) * SESSION_PERIOD]>>

\* C17 -- Population query shape: populating session 0 asks only authority_data(0) and
\* aura_authorities(0); populating session N > 0 asks only next_authority_data(p) and
\* next_aura_authorities(p) with p the first block of session N - 1 (never negative);
\* a successful population asks both.
PopulationQueryShape ==
    Called =>
        LET allowed == QueriesFor(SessionOf(call.number))
        IN  /\ Len(call.queries) <= 2
            /\ \A i \in 1..Len(call.queries) :
                  /\ call.queries[i] = allowed[i]
                  /\ call.queries[i].block_number >= 0
            /\ (Succeeded /\ ~Hit) => call.queries = allowed

\* a session after genesis is populated
PopulationQueryShapeWitness ==
    /\ Succeeded /\ ~Hit
    /\ SessionOf(call.number) >= 2
    /\ Len(call.queries) = 2

\* C18 -- Population error precedence: on a miss for session s, unknown authority data
\* gives UnknownAuthorities(s) whether or not the round-robin list is known; known
\* authority data with an unknown round-robin list gives UnknownAuraAuthorities(s);
\* either way nothing is inserted, for get as for get_aura_authorities.
PopulationErrorPrecedence ==
    (PassedBoundChecks /\ ~Hit) =>
        LET s == SessionOf(call.number)
        IN  IF ~call.had_authorities
            THEN call.err = UnknownAuthorities(s) /\ s \notin DOMAIN cached_data
            ELSE IF ~call.had_aura_authorities
            THEN call.err = UnknownAuraAuthorities(s) /\ s \notin DOMAIN cached_data
            ELSE call.err.kind = "Ok"

\* get fails for a session whose verifier is known but whose round-robin list is not
PopulationErrorPrecedenceWitness ==
    /\ PassedBoundChecks /\ ~Hit
    /\ call.op = "get"
    /\ call.had_authorities /\ ~call.had_aura_authorities
    /\ call.err.kind = "UnknownAuraAuthorities"
    /\ SessionOf(call.number) >= 1

\* C13 -- Eviction only drops unreachable data: once the retention pass has removed the
\* entry of session S, every later call for S fails with SessionTooOld and S is never
\* in entries again.
EvictedNeverReturns ==
    /\ evicted \cap DOMAIN cached_data = {}
    /\ (Called /\ call.was_evicted) => call.err.kind = "SessionTooOld"

\* a session that was cached and evicted is asked for again
EvictedNeverReturnsWitness ==
    /\ Called /\ call.was_evicted
    /\ call.err.kind = "SessionTooOld"
    /\ call.had_data

\* C14 -- Window anchored at the highest successful request: lower_bound is
\* max(0, H - window_size + 1), H the highest session a call has returned successfully
\* (0 if none has).
WindowAnchoredAtHighestSuccess ==
    lower_bound = IF top_returned - cache_size + 1 > 0
                  THEN top_returned - cache_size + 1 ELSE 0

FutureRejectionRecovers ==
    (Called /\ call.was_future_rejected /\ call.had_data
            /\ SessionOf(call.finalized) >= SessionOf(call.number) - 1) =>
        /\ call.err.kind = "Ok"
        /\ call.value # None

\* the retry of a session that was in the future, right at the new upper bound
FutureRejectionRecoversWitness ==
    /\ Succeeded /\ call.was_future_rejected
    /\ SessionOf(call.finalized) = SessionOf(call.number) - 1
    /\ ~Hit

\* C19 -- Window stays below the finalization horizon: with window_size >= 1 and a
\* finalized number that never decreases, lower_bound and every key of entries are
\* <= session(finalized) + 1, and a session whose entry is cached is never rejected
\* with SessionInFuture.
WindowBelowHorizon ==
    cache_size >= 1 =>
        /\ lower_bound <= UpperBoundAt(finalized_number)
        /\ \A k \in DOMAIN cached_data : k <= UpperBoundAt(finalized_number)
        /\ Hit => call.err.kind # "SessionInFuture"

\* the window has slid all the way up to the horizon
WindowBelowHorizonWitness ==
    /\ lower_bound = UpperBoundAt(finalized_number)
    /\ lower_bound \in DOMAIN cached_data
    /\ lower_bound >= 2

\* C12 -- Entry immutability: an entry that is present before and after a call is the
\* same before and after, and a call that finds its session cached returns the stored
\* verifier / round-robin list, whatever the authority source would answer now.
EntryImmutable ==
    /\ \A k \in DOMAIN pre_cached_data \cap DOMAIN cached_data :
          cached_data[k] = pre_cached_data[k]
    /\ Hit =>
          LET stored == pre_cached_data[SessionOf(call.number)]
          IN  call.value = IF call.op = "get"
                           THEN Some(stored.session_verifier)
                           ELSE Some(stored.aura_authorities)

\* a hit on an entry for which the authority source now answers differently
EntryImmutableWitness ==
    /\ Hit /\ call.op = "get"
    /\ SessionOf(call.number) \in DOMAIN session_map
    /\ call.value # Some(Into(session_map[SessionOf(call.number)]))
    /\ call.value = Some(Into(authority_data_for_session(SessionOf(call.number))))

\* C20 -- Pink-scorpion pallet, rejection leaves state unchanged: a signed disassembled
\* or reassembled call fails with CreationTimeTooLong, FilePathTooLong or
\* EventKeyTooLong for the first of creation_time > 64, file_path > 256,
\* event_key > 128 bytes that holds, and then DisReAssembly is unchanged and no event
\* is deposited; vectors of exactly 64 / 256 / 128 bytes are accepted.
RejectionLeavesPalletUnchanged ==
    (dispatch.call # "none" /\ dispatch.origin.signed) =>
        /\ dispatch.result =
              IF Len(dispatch.creation_time) > 64 THEN "CreationTimeTooLong"
              ELSE IF Len(dispatch.file_path) > 256 THEN "FilePathTooLong"
              ELSE IF Len(dispatch.event_key) > 128 THEN "EventKeyTooLong"
              ELSE "Ok"
        /\ dispatch.result # "Ok" =>
              (DisReAssembly = pre_DisReAssembly /\ events = pre_events)

\* a call over two limits is rejected for the first of them, with records in storage
RejectionLeavesPalletUnchangedWitness ==
    /\ dispatch.call = "reassembled"
    /\ dispatch.result = "FilePathTooLong"
    /\ Len(dispatch.creation_time) = 64
    /\ Len(dispatch.event_key) > 128
    /\ dispatch.origin.who \in DOMAIN DisReAssembly
    /\ Len(events) > 0

\* v followed by zero bytes up to n bytes
PaddedTo(v, n) == v \o [i \in 1..(n - Len(v)) |-> 0]

\* the record the pallet is expected to hold for a successful call with these arguments
RecordOf(c) == [creationtime |-> PaddedTo(c.creation_time, 64),
                filepath |-> PaddedTo(c.file_path, 256),
                eventkey |-> PaddedTo(c.event_key, 128)]

\* C21 -- Pink-scorpion pallet, last write wins per account: the DisReAssembly record
\* of an account is the zero-padded (creation_time, file_path, event_key) of its most
\* recent successful disassembled / reassembled call, an account without a successful
\* call has no record, a call leaves the records of all other accounts unchanged, and
\* a successful call deposits exactly one event, FileDisassembled or FileReassembled
\* after the call, carrying the caller and the record just stored.
LastWriteWins ==
    /\ DOMAIN DisReAssembly = DOMAIN last_ok
    /\ \A a \in DOMAIN last_ok : DisReAssembly[a] = RecordOf(last_ok[a])
    /\ dispatch.call # "none" =>
          \A a \in Accounts \ {dispatch.origin.who} :
              /\ a \in DOMAIN DisReAssembly <=> a \in DOMAIN pre_DisReAssembly
              /\ a \in DOMAIN DisReAssembly => DisReAssembly[a] = pre_DisReAssembly[a]
    /\ (dispatch.call # "none" /\ dispatch.result = "Ok") =>
          events = Append(pre_events,
                          [name |-> IF dispatch.call = "disassembled"
                                    THEN "FileDisassembled" ELSE "FileReassembled",
                           who |-> dispatch.origin.who,
                           event |-> RecordOf(dispatch)])

\* an account that disassembled a file reassembles another one: its record is replaced
LastWriteWinsWitness ==
    /\ dispatch.call = "reassembled"
    /\ dispatch.result = "Ok"
    /\ Len(dispatch.creation_time) < 64
    /\ Len(events) = 2
    /\ events[1].name = "FileDisassembled"
    /\ events[1].who = dispatch.origin.who
    /\ dispatch.origin.who \in DOMAIN pre_DisReAssembly
    /\ pre_DisReAssembly[dispatch.origin.who] # DisReAssembly[dispatch.origin.who]
====
